---- MODULE Spec2Model ----
(***************************************************************************)
(* Model of docs/marketing/create_clip.py: the retry_on_429 decorator, the *)
(* three generation stages it wraps (generate_image, generate_variation,   *)
(* generate_video with its poll loop) and create_clip, which runs them in  *)
(* sequence.  The external services are the environment: every call to    *)
(* one of them picks its outcome nondeterministically.                     *)
(***************************************************************************)
EXTENDS Integers, Sequences, FiniteSets, TLC

\* ---------------------------------------------------------------- bounds
\* largest value of --max-retries that main() is given
MaxCap == 3
\* largest attempt cap the backoff delay is tabulated for
MaxBackoffCap == 8
\* largest number of status refetches one poll loop is followed for
MaxPolls == 2
\* largest value of --max-retries the clip requests are enumerated with
MaxConfigCap == 1
\* largest number of clip directories chain_clips.py is given
MaxDirs == 4
\* largest --max-retries of a run that shares the process with another
MaxRunCap == 2
\* largest number of 429 answers in a row a run's stage call is given
MaxRunFails == 2

\* ------------------------------------------------------ program constants
BASE_DELAY == 5
MAX_DELAY == 120
MAX_JITTER == 2
DEFAULT_MAX_RETRIES == 8

\* 2 ** n
RECURSIVE Pow2(_)
Pow2(n) == IF n <= 0 THEN 1 ELSE 2 * Pow2(n - 1)

Min(a, b) == IF a <= b THEN a ELSE b

\* ------------------------------------------------------------ exceptions
\* An exception is its class and its text str(e), the text being a sequence
\* of words.  NoneExc is Python's None held by last_exception.
NoneExc == [type |-> "NoneType", text |-> <<>>]

RateLimit429 == [type |-> "ClientError", text |-> <<"429", "Too", "Many", "Requests">>]
QuotaExhausted == [type |-> "ClientError", text |-> <<"quota", "RESOURCE_EXHAUSTED">>]
ServerError == [type |-> "ClientError", text |-> <<"500", "INTERNAL">>]

\* what a call to an external capability can raise
ServiceErrors == {RateLimit429, QuotaExhausted, ServerError}

FileNotFound == [type |-> "FileNotFoundError", text |-> <<"No", "such", "file">>]
SystemExit1 == [type |-> "SystemExit", text |-> <<"1">>]
RaiseNoneTypeError ==
    [type |-> "TypeError", text |-> <<"exceptions", "must", "derive", "from", "BaseException">>]

\* `except Exception` catches every class but the BaseException-only ones
CaughtByExceptException(e) == e.type # "SystemExit"

\* "429" in error_str or "RESOURCE_EXHAUSTED" in error_str
IsTransientAlways(e) == TRUE
IsTransient(e) ==
    \E i \in DOMAIN e.text : e.text[i] = "429" \/ e.text[i] = "RESOURCE_EXHAUSTED"

\* min(BASE_DELAY * (2 ** attempt) + random.uniform(0, 2), MAX_DELAY)
BackoffUncapped(a, jitter) == BASE_DELAY * Pow2(a) + jitter
Backoff(a, jitter) == Min(BASE_DELAY * Pow2(a) + jitter, MAX_DELAY)

\* the values random.uniform(0, 2) is drawn from
Jitter == 0 .. MAX_JITTER

\* `raise x`: raising None is itself a TypeError
RaiseWrapped(x) == [type |-> "RetryExhaustedError", text |-> x.text]
Raise(x) == IF x = NoneExc THEN RaiseNoneTypeError ELSE x

\* ---------------------------------------------------------------- stages
Stages == {"START_FRAME", "END_FRAME", "VIDEO"}
ImageStages == {"START_FRAME", "END_FRAME"}

\* the order of the three steps of create_clip
NextStageSkipping(s) ==
    CASE s = "INIT" -> "START_FRAME"
      [] s = "START_FRAME" -> "VIDEO"
      [] s = "VIDEO" -> "END_FRAME"
      [] OTHER -> "DONE"
NextStage(s) ==
    CASE s = "INIT" -> "START_FRAME"
      [] s = "START_FRAME" -> "END_FRAME"
      [] s = "END_FRAME" -> "VIDEO"
      [] OTHER -> "DONE"

\* start_path, end_path, video_path of create_clip
Files == {"start.png", "end.png", "clip.mp4"}
OutputOf(s) ==
    CASE s = "START_FRAME" -> "start.png"
      [] s = "END_FRAME" -> "end.png"
      [] OTHER -> "clip.mp4"

\* the files a stage's function opens before it calls the service
InputsOf(s) ==
    CASE s = "START_FRAME" -> {}
      [] s = "END_FRAME" -> {"start.png"}
      [] OTHER -> {"start.png", "end.png"}

\* what a finished video operation can carry
Payloads == {"bytes", "base64", "uri", "novideo", "empty", "noresponse"}
NoOperation == [done |-> FALSE, payload |-> "pending"]
NoRemote == [doneAfter |-> 0 - 1, payload |-> "noresponse"]
NoResult == [start |-> "unset", end |-> "unset", video |-> "unset"]

\* ---------------------------------------------------------- clip request
\* the values the docstring of create_clip and the --aspect / --duration
\* options name
AspectRatios == {"9:16", "16:9", "1:1"}
DurationChoices == {4, 6, 8}

\* a request: how it is given (a JSON document or discrete options), whether
\* clip_id and the three prompts are all there, its aspect_ratio and
\* duration, and whether both environment values are set
ValidConfig ==
    [form |-> "json", complete |-> TRUE, aspect |-> "9:16", duration |-> 4,
     env |-> TRUE]
Configs ==
    [form : {"json", "cli"}, complete : BOOLEAN, aspect : {"9:16", "4:3"},
     duration : {4, 5}, env : BOOLEAN]

SystemExit2 == [type |-> "SystemExit", text |-> <<"2">>]
KeyError == [type |-> "KeyError", text |-> <<"clip_id">>]

VARIABLES
    MAX_RETRIES,     \* the module global, set by main() from --max-retries
    state,           \* where create_clip is: INIT, a stage, DONE or FAILED
    pc,              \* where the running wrapper / function is
    attempt,         \* wrapper: the loop index
    last_exception,  \* wrapper: last transient exception caught
    delay,           \* wrapper: last computed delay
    operation,       \* generate_video: the current handle
    poll_count,      \* generate_video: poll_count
    fs,              \* the clip directory: file -> "none" | "stale" | "fresh"
    remote,          \* the remote video operation of the current request
    raised,          \* the exception that left create_clip, NoneExc if none
    exit_kind,       \* how create_clip ended
    thrown,          \* history: the last exception the wrapped function raised
    calls,           \* history: invocations of the wrapped function, per stage
    requests,        \* history: calls of the external capability, per stage
    caught,          \* history: transient exceptions caught, per stage
    sleeps,          \* history: backoff suspensions, per stage
    ret,             \* history: what the wrapper returned, per stage
    pollSleeps,      \* history: poll suspensions of the current invocation
    refetches,       \* history: status refetches of the current invocation
    handles,         \* history: operation handles returned to this run
    log,             \* what was printed
    result,          \* the dict returned by create_clip
    config,          \* create_clip.py: the clip request as main() is given it
    given,           \* chain_clips.py: the clip directories on disk, by position
    args,            \* chain_clips.py: args.clips, args.crossfade, args.reencode
    cpc,             \* chain_clips.py: where main() / chain_clips() is
    clip_paths,      \* chain_clips: clip_paths
    durations,       \* history: the duration probed for each clip path
    invocations,     \* history: the ffmpeg concatenation commands run
    out_probes,      \* history: probes of the output file
    list_file,       \* concat_simple: the temporary list file
    clog,            \* chain_clips.py: what was printed
    cexit,           \* chain_clips.py: how the process ended
    runs             \* the create_clip runs that share one Python process

\* the variables of create_clip.py and those of chain_clips.py
clipVars == <<MAX_RETRIES, state, pc, attempt, last_exception, delay, operation,
              poll_count, fs, remote, raised, exit_kind, thrown, calls,
              requests, caught, sleeps, ret, pollSleeps, refetches, handles,
              log, result, config>>
chainVars == <<given, args, cpc, clip_paths, durations, invocations, out_probes,
               list_file, clog, cexit>>

vars == <<clipVars, chainVars, runs>>

\* there is one create_clip run in the process, the one of the clip variables
NoRuns == <<>>

\* chain_clips.py is not running
ChainIdle ==
    /\ given = <<>>
    /\ args = [clips |-> <<>>, crossfade |-> 0, reencode |-> FALSE]
    /\ cpc = "idle"
    /\ clip_paths = <<>>
    /\ durations = <<>>
    /\ invocations = <<>>
    /\ out_probes = 0
    /\ list_file = [state |-> "none", lines |-> <<>>]
    /\ clog = {}
    /\ cexit = [code |-> 0, error |-> "running"]

\* create_clip.py at the start of main(): nothing has run; the clip
\* directory is new or holds the files of an earlier run
ClipStart ==
    /\ state = "INIT"
    /\ pc = "idle"
    /\ attempt = 0
    /\ last_exception = NoneExc
    /\ delay = 0
    /\ operation = NoOperation
    /\ poll_count = 0
    /\ fs \in {[f \in Files |-> "none"], [f \in Files |-> "stale"]}
    /\ remote = NoRemote
    /\ raised = NoneExc
    /\ exit_kind = "running"
    /\ thrown = NoneExc
    /\ calls = [s \in Stages |-> 0]
    /\ requests = [s \in Stages |-> 0]
    /\ caught = [s \in Stages |-> 0]
    /\ sleeps = [s \in Stages |-> 0]
    /\ ret = [s \in Stages |-> "pending"]
    /\ pollSleeps = 0
    /\ refetches = 0
    /\ handles = 0
    /\ log = {}
    /\ result = NoResult

\* main(): MAX_RETRIES = args.max_retries, with a well-formed clip request
Init ==
    /\ runs = NoRuns
    /\ MAX_RETRIES \in (0 - 1) .. MaxCap
    /\ config = ValidConfig
    /\ ClipStart
    /\ ChainIdle

\* main() with every kind of clip request
InitConfig ==
    /\ runs = NoRuns
    /\ MAX_RETRIES \in 0 .. MaxConfigCap
    /\ config \in Configs
    /\ ClipStart
    /\ ChainIdle

\* ----------------------------------------------------------- retry_on_429
\* for attempt in range(MAX_RETRIES): is there an iteration for index a
CanAttemptOneShort(a) == a < MAX_RETRIES - 1
CanAttempt(a) == a < MAX_RETRIES

\* create_clip calls the decorated function of stage s: wrapper entry
EnterStageKeepingIndex(s) ==
    /\ state' = s
    /\ pc' = "loop"
    /\ attempt' = attempt
    /\ last_exception' = NoneExc
EnterStage(s) ==
    /\ state' = s
    /\ pc' = "loop"
    /\ attempt' = 0
    /\ last_exception' = NoneExc

\* the wrapped function of stage s returns v, so the wrapper returns v; then
\* create_clip goes on: to the next stage, or to CLIP COMPLETE and its dict
Return(s, v, msgs) ==
    /\ ret' = [ret EXCEPT ![s] = v]
    /\ IF NextStage(s) = "DONE"
       THEN /\ state' = "DONE"
            /\ pc' = "idle"
            /\ exit_kind' = "complete"
            /\ log' = log \cup msgs \cup {"CLIP COMPLETE"}
            /\ result' = [start |-> OutputOf("START_FRAME"),
                          end |-> OutputOf("END_FRAME"),
                          video |-> IF OutputOf("VIDEO") # "None"
                                    THEN OutputOf("VIDEO") ELSE "None"]
            /\ UNCHANGED <<attempt, last_exception>>
       ELSE /\ EnterStage(NextStage(s))
            /\ log' = log \cup msgs
            /\ UNCHANGED <<exit_kind, result>>
    /\ UNCHANGED <<delay, raised, thrown, caught, sleeps>>

\* an exception leaves create_clip (nothing above the wrapper catches)
PropagateSwallowed(e, kind, msgs) ==
    /\ raised' = e
    /\ exit_kind' = kind
    /\ log' = log \cup msgs
    /\ IF NextStage(state) = "DONE"
       THEN /\ state' = "DONE"
            /\ pc' = "idle"
            /\ UNCHANGED <<attempt, last_exception>>
       ELSE EnterStage(NextStage(state))
    /\ UNCHANGED <<delay, caught, sleeps, ret, result>>
Propagate(e, kind, msgs) ==
    /\ raised' = e
    /\ state' = "FAILED"
    /\ pc' = "idle"
    /\ exit_kind' = kind
    /\ log' = log \cup msgs
    /\ UNCHANGED <<attempt, last_exception, delay, caught, sleeps, ret, result>>

\* the wrapped function of stage s raises e: the except clause of the wrapper
CatchRetryAll(s, e, msgs) ==
    /\ thrown' = e
    /\ last_exception' = e
    /\ \E j \in Jitter : delay' = Backoff(attempt, j)
    /\ caught' = [caught EXCEPT ![s] = @ + 1]
    /\ sleeps' = [sleeps EXCEPT ![s] = @ + 1]
    /\ pc' = "sleep"
    /\ log' = log \cup msgs \cup {"RATE LIMITED"}
    /\ UNCHANGED <<state, attempt, raised, exit_kind, ret, result>>
Catch(s, e, msgs) ==
    /\ thrown' = e
    /\ IF CaughtByExceptException(e)
       THEN IF IsTransient(e)
            THEN /\ last_exception' = e
                 /\ \E j \in Jitter : delay' = Backoff(attempt, j)
                 /\ caught' = [caught EXCEPT ![s] = @ + 1]
                 /\ sleeps' = [sleeps EXCEPT ![s] = @ + 1]
                 /\ pc' = "sleep"
                 /\ log' = log \cup msgs \cup {"RATE LIMITED"}
                 /\ UNCHANGED <<state, attempt, raised, exit_kind, ret, result>>
            ELSE Propagate(e, "raise", msgs)
       ELSE Propagate(e, "sysexit", msgs)

\* time.sleep(delay) returns; the for loop takes its next index
Wake ==
    /\ pc = "sleep"
    /\ attempt' = attempt + 1
    /\ pc' = "loop"
    /\ UNCHANGED <<runs, chainVars, config, MAX_RETRIES, state, last_exception, delay, operation,
                   poll_count, fs, remote, raised, exit_kind, thrown, calls,
                   requests, caught, sleeps, ret, pollSleeps, refetches,
                   handles, log, result>>

\* the for loop is over: print [FAILED], raise last_exception
Exhausted ==
    /\ pc = "loop"
    /\ ~CanAttempt(attempt)
    /\ Propagate(Raise(last_exception), "exhausted", {"FAILED"})
    /\ UNCHANGED <<runs, chainVars, config, MAX_RETRIES, operation, poll_count, fs, remote, thrown,
                   calls, requests, pollSleeps, refetches, handles>>

\* ------------------------------------- generate_image, generate_variation
\* one invocation of the function of image stage s by the wrapper
CallImage(s) ==
    /\ state = s
    /\ pc = "loop"
    /\ CanAttempt(attempt)
    /\ calls' = [calls EXCEPT ![s] = @ + 1]
    /\ IF \E f \in InputsOf(s) : fs[f] = "none"
       THEN /\ Catch(s, FileNotFound, {})
            /\ UNCHANGED <<requests, fs>>
       ELSE /\ requests' = [requests EXCEPT ![s] = @ + 1]
            /\ \/ /\ fs' = [fs EXCEPT ![OutputOf(s)] = "fresh"]
                  /\ Return(s, OutputOf(s), {"Saved"})
               \/ /\ Catch(s, SystemExit1, {"ERROR: No image in response"})
                  /\ UNCHANGED fs
               \/ /\ \E e \in ServiceErrors : Catch(s, e, {})
                  /\ UNCHANGED fs
    /\ UNCHANGED <<runs, chainVars, config, MAX_RETRIES, operation, poll_count, remote, pollSleeps,
                   refetches, handles>>

\* --------------------------------------------------------- generate_video
\* the handle the service reports for remote operation r after n refetches
Status(r, n) ==
    IF r.doneAfter >= 0 /\ n >= r.doneAfter
    THEN [done |-> TRUE, payload |-> r.payload]
    ELSE NoOperation

\* while not operation.done
LoopCondOnce(op) == ~op.done /\ poll_count < 1
LoopCond(op) == ~op.done

\* one invocation of generate_video by the wrapper, up to the poll loop
SubmitVideo ==
    /\ state = "VIDEO"
    /\ pc = "loop"
    /\ CanAttempt(attempt)
    /\ calls' = [calls EXCEPT !["VIDEO"] = @ + 1]
    /\ IF \E f \in InputsOf("VIDEO") : fs[f] = "none"
       THEN /\ Catch("VIDEO", FileNotFound, {})
            /\ UNCHANGED <<requests, operation, poll_count, remote,
                           pollSleeps, refetches, handles>>
       ELSE /\ requests' = [requests EXCEPT !["VIDEO"] = @ + 1]
            /\ \/ /\ \E e \in ServiceErrors : Catch("VIDEO", e, {})
                  /\ UNCHANGED <<operation, poll_count, remote, pollSleeps,
                                 refetches, handles>>
               \/ /\ \E d \in (0 - 1) .. MaxPolls, p \in Payloads :
                        remote' = [doneAfter |-> d, payload |-> p]
                  /\ operation' = Status(remote', 0)
                  /\ poll_count' = 0
                  /\ pollSleeps' = 0
                  /\ refetches' = 0
                  /\ handles' = handles + 1
                  /\ pc' = "poll"
                  /\ UNCHANGED <<state, attempt, last_exception, delay, raised,
                                 exit_kind, thrown, caught, sleeps, ret, log,
                                 result>>
    /\ UNCHANGED <<runs, chainVars, config, MAX_RETRIES, fs>>

\* loop body up to the suspension: poll_count += 1; time.sleep(15)
PollSleep ==
    /\ state = "VIDEO"
    /\ pc = "poll"
    /\ LoopCond(operation)
    /\ poll_count < MaxPolls
    /\ poll_count' = poll_count + 1
    /\ pollSleeps' = pollSleeps + 1
    /\ pc' = "refetch"
    /\ UNCHANGED <<runs, chainVars, config, MAX_RETRIES, state, attempt, last_exception, delay,
                   operation, fs, remote, raised, exit_kind, thrown, calls,
                   requests, caught, sleeps, ret, refetches, handles, log,
                   result>>

\* operation = client.operations.get(operation)
Refetch ==
    /\ state = "VIDEO"
    /\ pc = "refetch"
    /\ \/ /\ \E e \in ServiceErrors : Catch("VIDEO", e, {})
          /\ UNCHANGED <<operation, refetches>>
       \/ /\ operation' = Status(remote, refetches + 1)
          /\ refetches' = refetches + 1
          /\ pc' = "poll"
          /\ UNCHANGED <<state, attempt, last_exception, delay, raised,
                         exit_kind, thrown, caught, sleeps, ret, log, result>>
    /\ UNCHANGED <<runs, chainVars, config, MAX_RETRIES, poll_count, fs, remote, calls, requests,
                   pollSleeps, handles>>

\* the while condition is false: control reaches `if operation.response`
LeaveLoop ==
    /\ state = "VIDEO"
    /\ pc = "poll"
    /\ ~LoopCond(operation)
    /\ pc' = "extract"
    /\ UNCHANGED <<runs, chainVars, config, MAX_RETRIES, state, attempt, last_exception, delay,
                   operation, poll_count, fs, remote, raised, exit_kind,
                   thrown, calls, requests, caught, sleeps, ret, pollSleeps,
                   refetches, handles, log, result>>

\* result extraction and the rest of create_clip; video_bytes given as text
\* are decoded first, either way clip.mp4 is written in this run
Extract ==
    /\ state = "VIDEO"
    /\ pc = "extract"
    /\ IF operation.payload \in {"bytes", "base64"}
       THEN /\ fs' = [fs EXCEPT ![OutputOf("VIDEO")] = "fresh"]
            /\ Return("VIDEO", OutputOf("VIDEO"), {"Saved"})
       ELSE IF operation.payload = "uri"
       THEN /\ Return("VIDEO", "None", {"Video at GCS"})
            /\ UNCHANGED fs
       ELSE /\ Return("VIDEO", "None", {"ERROR: No video generated"})
            /\ UNCHANGED fs
    /\ UNCHANGED <<runs, chainVars, config, MAX_RETRIES, operation, poll_count, remote, calls, requests,
                   pollSleeps, refetches, handles>>

\* ------------------------------------------------------------ create_clip
\* main() from parse_args on, and create_clip up to STEP 1: argparse checks
\* --duration against its choices; without a config file and without all
\* four options main prints the help; create_clip reads the four required
\* keys; setup_image_client wants both environment values
Begin ==
    /\ state = "INIT"
    /\ IF config.form = "cli" /\ config.duration \notin DurationChoices
       THEN Propagate(SystemExit2, "sysexit", {"usage"})
       ELSE IF ~config.complete
       THEN IF config.form = "json"
            THEN Propagate(KeyError, "raise", {})
            ELSE Propagate(SystemExit1, "sysexit", {"help"})
       ELSE IF ~config.env
       THEN Propagate(SystemExit1, "sysexit", {"ERROR: Set VERTEX_AI_PROJECT_ID"})
       ELSE /\ EnterStage(NextStage("INIT"))
            /\ UNCHANGED <<delay, raised, exit_kind, caught, sleeps, ret, log,
                           result>>
    /\ UNCHANGED <<runs, chainVars, config, MAX_RETRIES, operation, poll_count, fs,
                   remote, thrown, calls, requests, pollSleeps, refetches,
                   handles>>

Next ==
    \/ Begin
    \/ \E s \in ImageStages : CallImage(s)
    \/ SubmitVideo
    \/ PollSleep
    \/ Refetch
    \/ LeaveLoop
    \/ Extract
    \/ Wake
    \/ Exhausted

Spec == Init /\ [][Next]_vars

\* the same program, started with every kind of clip request
SpecConfig == InitConfig /\ [][Next]_vars

\* ------------------------------------------------- the backoff delay alone
\* the wrapper at its except clause, for every cap and every loop index
InitBackoff ==
    /\ runs = NoRuns
    /\ MAX_RETRIES \in 1 .. MaxBackoffCap
    /\ attempt \in 0 .. MAX_RETRIES - 1
    /\ state = "START_FRAME"
    /\ pc = "except"
    /\ last_exception = RateLimit429
    /\ delay = 0
    /\ operation = NoOperation
    /\ poll_count = 0
    /\ fs = [f \in Files |-> "none"]
    /\ remote = NoRemote
    /\ raised = NoneExc
    /\ exit_kind = "running"
    /\ thrown = RateLimit429
    /\ calls = [s \in Stages |-> IF s = "START_FRAME" THEN attempt + 1 ELSE 0]
    /\ requests = calls
    /\ caught = [s \in Stages |-> IF s = "START_FRAME" THEN attempt + 1 ELSE 0]
    /\ sleeps = [s \in Stages |-> IF s = "START_FRAME" THEN attempt ELSE 0]
    /\ ret = [s \in Stages |-> "pending"]
    /\ pollSleeps = 0
    /\ refetches = 0
    /\ handles = 0
    /\ log = {}
    /\ result = NoResult
    /\ config = ValidConfig
    /\ ChainIdle

\* delay = min(...); print; time.sleep(delay)
ComputeDelay ==
    /\ pc = "except"
    /\ \E j \in Jitter : delay' = Backoff(attempt, j)
    /\ sleeps' = [sleeps EXCEPT ![state] = @ + 1]
    /\ log' = log \cup {"RATE LIMITED"}
    /\ pc' = "sleep"
    /\ UNCHANGED <<runs, chainVars, config, MAX_RETRIES, state, attempt, last_exception, operation,
                   poll_count, fs, remote, raised, exit_kind, thrown, calls,
                   requests, caught, ret, pollSleeps, refetches, handles,
                   result>>

NextBackoff == ComputeDelay

SpecBackoff == InitBackoff /\ [][NextBackoff]_vars

\* ========================================================= chain_clips.py
\* Durations and fade lengths are in tenths of a second.
MIN_CLIPS == 2
MAX_CLIPS == 3
XFADE_OFFSET_FIRST == 35
XFADE_OFFSET_SECOND == 70

\* file names, as stem and extension
ClipMp4 == [stem |-> "clip", ext |-> "mp4"]
VideoMp4 == [stem |-> "video", ext |-> "mp4"]
AMp4 == [stem |-> "a", ext |-> "mp4"]
BMp4 == [stem |-> "b", ext |-> "mp4"]
NotesTxt == [stem |-> "notes", ext |-> "txt"]

\* the clip directories the runs are enumerated with
MissingDir == [exists |-> FALSE, files |-> {}]
Dir(files) == [exists |-> TRUE, files |-> files]
DirChoices ==
    {MissingDir, Dir({NotesTxt}), Dir({AMp4, NotesTxt}), Dir({AMp4, BMp4}),
     Dir({VideoMp4, BMp4}), Dir({ClipMp4, VideoMp4, AMp4})}

\* the values of --crossfade, and what ffprobe reports (0: ffprobe failed)
CrossfadeValues == {0, 10, 50}
DurationValues == {0, 40, 60}

\* what subprocess.run gives back for an ffmpeg command
ToolResults ==
    {[returncode |-> 0, stderr |-> ""],
     [returncode |-> 1, stderr |-> "Invalid data found when processing input"]}

\* a printed line
Msg(m, dir, text) == [msg |-> m, dir |-> dir, text |-> text]

\* for name in ["clip.mp4", "video.mp4"]
PreferredNamesSwapped == <<VideoMp4, ClipMp4>>
PreferredNames == <<ClipMp4, VideoMp4>>

\* find_clip_video: the names it can return for directory d, none if it
\* exits; glob("*.mp4") lists in no particular order
FindClipVideo(d) ==
    LET named == {i \in DOMAIN PreferredNames : PreferredNames[i] \in d.files}
    IN  IF named # {}
        THEN {PreferredNames[CHOOSE i \in named : \A j \in named : i <= j]}
        ELSE {f \in d.files : f.ext = "mp4"}

\* args.clips = args.clips[:3] when there are more than 3
TruncateLast(c) ==
    IF Len(c) > MAX_CLIPS THEN SubSeq(c, Len(c) - MAX_CLIPS + 1, Len(c)) ELSE c
Truncate(c) == IF Len(c) > MAX_CLIPS THEN SubSeq(c, 1, MAX_CLIPS) ELSE c

\* if crossfade > 0 / elif reencode / else
SelectStrategyReencodeFirst(crossfade, reencode) ==
    IF reencode THEN "reencode"
    ELSE IF crossfade > 0 THEN "crossfade" ELSE "simple"
SelectStrategy(crossfade, reencode) ==
    IF crossfade > 0 THEN "crossfade"
    ELSE IF reencode THEN "reencode" ELSE "simple"

\* the offset= values of the xfade filters, for n inputs
CrossfadeOffsets(n) ==
    IF n = 2 THEN <<XFADE_OFFSET_FIRST>>
    ELSE <<XFADE_OFFSET_FIRST, XFADE_OFFSET_SECOND>>

\* clip.absolute()
Absolute(p) == [p EXCEPT !.abs = TRUE]

\* if result.returncode != 0
ToolFailedNever(r) == FALSE
ToolFailed(r) == r.returncode # 0

\* print msgs and sys.exit(1), or an exception that nothing catches
ChainExit(err, msgs) ==
    /\ cexit' = [code |-> 1, error |-> err]
    /\ cpc' = "failed"
    /\ clog' = clog \cup msgs

\* the strategy's code after subprocess.run returned r
AfterTool(r) ==
    IF ToolFailed(r)
    THEN ChainExit("ffmpeg failed", {Msg("ERROR: ffmpeg failed", 0, r.stderr)})
    ELSE /\ cpc' = "report"
         /\ clog' = clog \cup {Msg("Output", 0, "")}
         /\ UNCHANGED cexit

\* main() of chain_clips.py up to the call of chain_clips
ChainMain ==
    /\ cpc = "main"
    /\ IF Len(args.clips) < MIN_CLIPS
       THEN /\ ChainExit("too few clips",
                         {Msg("ERROR: Need at least 2 clips to chain", 0, "")})
            /\ UNCHANGED args
       ELSE LET warn == IF Len(args.clips) > MAX_CLIPS
                        THEN {Msg("WARNING: Only first 3 clips will be used", 0, "")}
                        ELSE {}
            IN  /\ args' = [args EXCEPT !.clips = Truncate(args.clips)]
                /\ \E ffmpeg \in {"ok", "broken", "missing"} :
                      IF ffmpeg = "ok"
                      THEN /\ cpc' = "discover"
                           /\ clog' = clog \cup warn
                           /\ UNCHANGED cexit
                      ELSE ChainExit("no ffmpeg",
                                     warn \cup {Msg("ERROR: ffmpeg", 0, ffmpeg)})
    /\ UNCHANGED <<runs, clipVars, given, clip_paths, durations, invocations,
                   out_probes, list_file>>

\* one iteration of `for clip_dir in clip_dirs`
Discover ==
    /\ cpc = "discover"
    /\ LET i == Len(clip_paths) + 1
           d == given[args.clips[i]]
       IN  IF ~d.exists
           THEN /\ ChainExit("no directory",
                             {Msg("ERROR: Directory not found", args.clips[i], "")})
                /\ UNCHANGED <<clip_paths, durations>>
           ELSE IF FindClipVideo(d) = {}
           THEN /\ ChainExit("no video file",
                             {Msg("ERROR: No video file found in", args.clips[i], "")})
                /\ UNCHANGED <<clip_paths, durations>>
           ELSE /\ \E name \in FindClipVideo(d) :
                      clip_paths' = Append(clip_paths,
                          [dir |-> args.clips[i], name |-> name, abs |-> FALSE])
                /\ \E dur \in DurationValues : durations' = Append(durations, dur)
                /\ cpc' = IF i = Len(args.clips) THEN "select" ELSE "discover"
                /\ clog' = clog \cup {Msg("Found", args.clips[i], "")}
                /\ UNCHANGED cexit
    /\ UNCHANGED <<runs, clipVars, given, args, invocations, out_probes, list_file>>

\* chain_clips calls concat_with_crossfade
ConcatCrossfade ==
    /\ cpc = "select"
    /\ SelectStrategy(args.crossfade, args.reencode) = "crossfade"
    /\ IF Len(clip_paths) \notin {2, 3}
       THEN /\ ChainExit("clip count",
                         {Msg("ERROR: Crossfade only supports 2-3 clips", 0, "")})
            /\ UNCHANGED invocations
       ELSE \E r \in ToolResults :
               /\ invocations' = Append(invocations,
                     [strategy |-> "crossfade", inputs |-> clip_paths,
                      fade |-> args.crossfade,
                      offsets |-> CrossfadeOffsets(Len(clip_paths)),
                      returncode |-> r.returncode,
                      stderr |-> r.stderr])
               /\ AfterTool(r)
    /\ UNCHANGED <<runs, clipVars, given, args, clip_paths, durations, out_probes,
                   list_file>>

\* chain_clips calls concat_with_reencode
ConcatReencode ==
    /\ cpc = "select"
    /\ SelectStrategy(args.crossfade, args.reencode) = "reencode"
    /\ \E r \in ToolResults :
          /\ invocations' = Append(invocations,
                [strategy |-> "reencode", inputs |-> clip_paths, fade |-> 0,
                 offsets |-> <<>>, returncode |-> r.returncode,
                      stderr |-> r.stderr])
          /\ AfterTool(r)
    /\ UNCHANGED <<runs, clipVars, given, args, clip_paths, durations, out_probes,
                   list_file>>

\* chain_clips calls concat_simple: the with block that writes the list file
\* (the file is created with delete=False; a failed write leaves the block
\* by its exception, before the try)
ConcatSimpleWrite ==
    /\ cpc = "select"
    /\ SelectStrategy(args.crossfade, args.reencode) = "simple"
    /\ \/ /\ list_file' = [state |-> "exists",
                           lines |-> [i \in DOMAIN clip_paths |->
                                         Absolute(clip_paths[i])]]
          /\ cpc' = "simple_run"
          /\ clog' = clog \cup {Msg("Using simple concatenation", 0, "")}
          /\ UNCHANGED cexit
       \/ /\ list_file' = [state |-> "exists", lines |-> <<>>]
          /\ ChainExit("OSError", {Msg("Using simple concatenation", 0, "")})
    /\ UNCHANGED <<runs, clipVars, given, args, clip_paths, durations, invocations,
                   out_probes>>

\* concat_simple: the try block and its finally
ConcatSimpleRun ==
    /\ cpc = "simple_run"
    /\ \E r \in ToolResults :
          /\ invocations' = Append(invocations,
                [strategy |-> "simple", inputs |-> list_file.lines, fade |-> 0,
                 offsets |-> <<>>, returncode |-> r.returncode,
                      stderr |-> r.stderr])
          /\ AfterTool(r)
    /\ list_file' = [list_file EXCEPT !.state = "deleted"]
    /\ UNCHANGED <<runs, clipVars, given, args, clip_paths, durations, out_probes>>

\* chain_clips after the strategy returned: probe and report the output
Report ==
    /\ cpc = "report"
    /\ out_probes' = out_probes + 1
    /\ clog' = clog \cup {Msg("CHAIN COMPLETE", 0, ""), Msg("Duration", 0, ""),
                         Msg("Size", 0, "")}
    /\ cpc' = "done"
    /\ cexit' = [code |-> 0, error |-> "none"]
    /\ UNCHANGED <<runs, clipVars, given, args, clip_paths, durations, invocations,
                   list_file>>

\* chain_clips.py started with 1 .. MaxDirs directories
InitChain ==
    /\ runs = NoRuns
    /\ \E n \in 1 .. MaxDirs :
          /\ given \in [1 .. n -> DirChoices]
          /\ args \in [clips : {[i \in 1 .. n |-> i]},
                       crossfade : CrossfadeValues, reencode : BOOLEAN]
    /\ cpc = "main"
    /\ clip_paths = <<>>
    /\ durations = <<>>
    /\ invocations = <<>>
    /\ out_probes = 0
    /\ list_file = [state |-> "none", lines |-> <<>>]
    /\ clog = {}
    /\ cexit = [code |-> 0, error |-> "running"]
    /\ MAX_RETRIES = DEFAULT_MAX_RETRIES
    /\ config = ValidConfig
    /\ ClipStart
    /\ fs = [f \in Files |-> "none"]

NextChain ==
    \/ ChainMain
    \/ Discover
    \/ ConcatCrossfade
    \/ ConcatReencode
    \/ ConcatSimpleWrite
    \/ ConcatSimpleRun
    \/ Report

SpecChain == InitChain /\ [][NextChain]_vars

\* ------------------------------------------ two runs in one Python process
\* Two calls of main() interleaved in one process (an external caller running
\* them on two threads): MAX_RETRIES is the one module global of lines 27 and
\* 298-299; attempt, the range of the for loop and the clip directory belong
\* to each run.  A stage call is taken as one step per attempt; the service
\* answers a run's stage call with 429 for the first `fails` attempts.
RunIds == {1, 2}

RunStart(cap, fails) ==
    [cap |-> cap, fails |-> fails, pc |-> "main", stage |-> "START_FRAME",
     limit |-> 0, attempt |-> 0,
     attempts |-> [s \in Stages |-> 0], written |-> {}]

InitRuns ==
    /\ runs \in [RunIds -> {RunStart(c, f) : c \in 1 .. MaxRunCap,
                                             f \in 0 .. MaxRunFails}]
    /\ MAX_RETRIES = DEFAULT_MAX_RETRIES
    /\ config = ValidConfig
    /\ ClipStart
    /\ fs = [f \in Files |-> "none"]
    /\ ChainIdle

\* the single-run and the chain variables stay as they are
RunUnchanged ==
    UNCHANGED <<chainVars, state, pc, attempt, last_exception, delay,
                operation, poll_count, fs, remote, raised, exit_kind, thrown,
                calls, requests, caught, sleeps, ret, pollSleeps, refetches,
                handles, log, result, config>>

\* main(): global MAX_RETRIES; MAX_RETRIES = args.max_retries
RunMain(r) ==
    /\ runs[r].pc = "main"
    /\ MAX_RETRIES' = runs[r].cap
    /\ runs' = [runs EXCEPT ![r].pc = "enter"]
    /\ RunUnchanged

\* wrapper entry: range(MAX_RETRIES) is built once from the global
RunEnter(r) ==
    /\ runs[r].pc = "enter"
    /\ runs' = [runs EXCEPT ![r].limit = MAX_RETRIES,
                            ![r].attempt = 0,
                            ![r].pc = "try"]
    /\ UNCHANGED MAX_RETRIES
    /\ RunUnchanged

\* one iteration of the for loop, or the raise after it
RunTry(r) ==
    /\ runs[r].pc = "try"
    /\ LET me == runs[r]
           s == me.stage
           counted == [me.attempts EXCEPT ![s] = @ + 1]
       IN  IF me.attempt < me.limit
           THEN IF me.attempt < me.fails
                THEN runs' = [runs EXCEPT ![r].attempts = counted,
                                          ![r].attempt = @ + 1]
                ELSE runs' = [runs EXCEPT
                        ![r].attempts = counted,
                        ![r].written = @ \cup {OutputOf(s)},
                        ![r].stage = NextStage(s),
                        ![r].pc = IF NextStage(s) = "DONE" THEN "done"
                                                           ELSE "enter"]
           ELSE runs' = [runs EXCEPT ![r].pc = "failed"]
    /\ UNCHANGED MAX_RETRIES
    /\ RunUnchanged

NextRuns ==
    \E r \in RunIds :
        \/ RunMain(r)
        \/ RunEnter(r)
        \/ RunTry(r)

SpecRuns == InitRuns /\ [][NextRuns]_vars

\* what a run with this cap and this service does when it is the only one
AloneDone(cap, fails) == fails < cap
AloneAttempts(cap, fails) ==
    [s \in Stages |-> IF AloneDone(cap, fails) THEN fails + 1
                      ELSE IF s = "START_FRAME" THEN cap ELSE 0]
AloneWritten(cap, fails) == IF AloneDone(cap, fails) THEN Files ELSE {}


TypeOK ==
    /\ state \in Stages \cup {"INIT", "DONE", "FAILED"}
    /\ pc \in {"idle", "loop", "sleep", "poll", "refetch", "extract", "except"}
    /\ attempt \in 0 .. MaxCap + MaxBackoffCap
    /\ delay \in 0 .. MAX_DELAY

\* ------------------------------------------------------------ vocabulary
\* the stages create_clip runs before stage s, and after it
Earlier(s) ==
    CASE s = "START_FRAME" -> {}
      [] s = "END_FRAME" -> {"START_FRAME"}
      [] OTHER -> {"START_FRAME", "END_FRAME"}
Later(s) == Stages \ (Earlier(s) \cup {s})

\* create_clip was left by an exception while stage s was running
FailedAt(s) ==
    /\ state = "FAILED"
    /\ ret[s] = "pending"
    /\ \A t \in Earlier(s) : ret[t] # "pending"

\* an error of the wrapped operation whose text has neither signal
NoSignal(e) ==
    /\ e.type \notin {"NoneType", "SystemExit"}
    /\ \A i \in DOMAIN e.text : e.text[i] \notin {"429", "RESOURCE_EXHAUSTED"}

\* a finished operation without any artifact
NoArtifact == {"novideo", "empty", "noresponse"}

\* ----------------------------------------------------------------- claims

\* C1: when the wrapped operation fails transiently on its first k calls,
\* k < MAX_RETRIES, and then succeeds, the wrapper returns the value and the
\* operation was invoked exactly k+1 times; the wrapper gives up only after
\* MAX_RETRIES transient failures, never while an attempt is left.
C1_SuccessAfterKFailures ==
    \A s \in Stages :
        /\ ret[s] # "pending" =>
              /\ calls[s] = caught[s] + 1
              /\ caught[s] < MAX_RETRIES
              /\ ret[s] \in {OutputOf(s), "None"}
        /\ (exit_kind = "exhausted" /\ FailedAt(s)) => caught[s] >= MAX_RETRIES

C1_Witness ==
    \E s \in Stages :
        /\ ret[s] = OutputOf(s)
        /\ caught[s] = MAX_RETRIES - 1
        /\ caught[s] >= 2
        /\ calls[s] = 3

\* C2: an error of the operation that carries neither the 429 nor the
\* RESOURCE_EXHAUSTED signal leaves the wrapper at once and unchanged: no
\* backoff suspension for it, no further invocation; on the first call that
\* is one invocation and no suspension.
C2_NonTransientPropagates ==
    NoSignal(thrown) =>
        /\ state = "FAILED"
        /\ exit_kind = "raise"
        /\ raised = thrown
        /\ \A s \in Stages : FailedAt(s) =>
              /\ sleeps[s] = caught[s]
              /\ calls[s] = caught[s] + 1
              /\ (caught[s] = 0 => calls[s] = 1 /\ sleeps[s] = 0)

C2_Witness ==
    /\ raised = ServerError
    /\ FailedAt("END_FRAME")
    /\ caught["END_FRAME"] >= 1
    /\ calls["END_FRAME"] = caught["END_FRAME"] + 1

C4_DelayCappedAndMonotone ==
    pc = "sleep" =>
        /\ delay <= MAX_DELAY
        /\ delay >= Min(BASE_DELAY, MAX_DELAY)
        /\ \A a \in 0 .. MAX_RETRIES - 1 :
              /\ Backoff(a + 1, 0) >= Backoff(a, 0)
              /\ \A j \in Jitter : Backoff(a, j) <= MAX_DELAY

C4_Witness ==
    /\ pc = "sleep"
    /\ delay = MAX_DELAY
    /\ BASE_DELAY * Pow2(attempt) > MAX_DELAY
    /\ attempt + 1 < MAX_RETRIES

\* C5: the image-variation service is called only after start.png was
\* written in this run, the video service only after start.png and end.png
\* were; while a stage runs no later stage has called its service, also when
\* stages are retried.
C5_StageOrdering ==
    /\ requests["END_FRAME"] >= 1 =>
          /\ fs["start.png"] = "fresh"
          /\ ret["START_FRAME"] # "pending"
    /\ requests["VIDEO"] >= 1 =>
          /\ fs["start.png"] = "fresh"
          /\ fs["end.png"] = "fresh"
          /\ ret["START_FRAME"] # "pending"
          /\ ret["END_FRAME"] # "pending"
    /\ \A s \in Stages : state = s =>
          /\ \A t \in Later(s) : calls[t] = 0 /\ requests[t] = 0
          /\ \A t \in Earlier(s) : ret[t] # "pending"

C5_Witness ==
    /\ requests["VIDEO"] >= 2
    /\ caught["START_FRAME"] >= 1
    /\ caught["END_FRAME"] >= 1
    /\ fs["end.png"] = "fresh"

\* C6 as stated: a video operation that ends with a URI only makes the run
\* end in DONE, writes no clip.mp4, prints the URI and returns a dict whose
\* video entry is null.
C6_UriGivesNullVideo ==
    (pc = "idle" /\ operation.done /\ operation.payload = "uri") =>
        /\ state = "DONE"
        /\ fs["clip.mp4"] # "fresh"
        /\ "Video at GCS" \in log
        /\ result.video = "None"

\* C7 as stated: a video operation that ends without any artifact makes the
\* run end in FAILED with a DataShapeError, never in DONE / CLIP COMPLETE,
\* and the video request is not repeated for it.
C7_NoArtifactFails ==
    (pc = "idle" /\ operation.done /\ operation.payload \in NoArtifact) =>
        /\ state = "FAILED"
        /\ raised.type = "DataShapeError"
        /\ "CLIP COMPLETE" \notin log
        /\ calls["VIDEO"] = caught["VIDEO"] + 1

\* C8: when the wrapper of a stage runs out of attempts, create_clip is left
\* by the error the wrapper raised, no later stage is invoked and the files
\* of the earlier stages are as those stages wrote them.
C8_ExhaustionAborts ==
    exit_kind = "exhausted" =>
        /\ state = "FAILED"
        /\ pc = "idle"
        /\ raised # NoneExc
        /\ (last_exception # NoneExc => raised = last_exception)
        /\ result = NoResult
        /\ \E s \in Stages : FailedAt(s)
        /\ \A s \in Stages : FailedAt(s) =>
              /\ \A t \in Later(s) : calls[t] = 0 /\ requests[t] = 0
              /\ \A t \in Earlier(s) : fs[OutputOf(t)] = "fresh"

C8_Witness ==
    /\ exit_kind = "exhausted"
    /\ FailedAt("VIDEO")
    /\ caught["VIDEO"] = MAX_RETRIES
    /\ MAX_RETRIES >= 2
    /\ fs["start.png"] = "fresh"
    /\ fs["end.png"] = "fresh"
    /\ handles >= 1

\* C9 as stated: once a video request has returned an operation handle, the
\* run submits no further video request, whatever a later refetch raises.
C9_NoResubmission ==
    [][handles >= 1 => requests'["VIDEO"] = requests["VIDEO"]]_vars

\* C10: result extraction starts only on a handle whose done flag is true,
\* after exactly as many refetches as the remote operation needed and as
\* many poll suspensions (none when it was done on submission), never for an
\* operation that does not become done; each iteration suspends first and
\* then replaces the handle by the refetched one.
C10_PollLoop ==
    /\ pc = "extract" =>
          /\ operation.done
          /\ remote.doneAfter >= 0
          /\ refetches = remote.doneAfter
          /\ pollSleeps = refetches
          /\ poll_count = refetches
    /\ pc = "refetch" =>
          /\ ~operation.done
          /\ pollSleeps = refetches + 1
    /\ pc = "poll" =>
          /\ pollSleeps = refetches
          /\ poll_count = refetches
          /\ operation = Status(remote, refetches)
          /\ refetches <= remote.doneAfter \/ remote.doneAfter < 0

C10_Witness ==
    /\ pc = "extract"
    /\ refetches = MaxPolls
    /\ pollSleeps = MaxPolls
    /\ operation.done

\* C11: an image call that returns a response without an image part ends the
\* run at once: that call is the stage's last one and is not retried, the
\* stage's frame file is not written and no later stage is invoked.
C11_NoImageIsFatal ==
    thrown = SystemExit1 =>
        /\ state = "FAILED"
        /\ pc = "idle"
        /\ raised = SystemExit1
        /\ "ERROR: No image in response" \in log
        /\ \E s \in ImageStages : FailedAt(s)
        /\ \A s \in Stages : FailedAt(s) =>
              /\ s \in ImageStages
              /\ calls[s] = caught[s] + 1
              /\ sleeps[s] = caught[s]
              /\ fs[OutputOf(s)] # "fresh"
              /\ \A t \in Later(s) : calls[t] = 0 /\ requests[t] = 0

C11_Witness ==
    /\ thrown = SystemExit1
    /\ FailedAt("END_FRAME")
    /\ calls["END_FRAME"] = 2
    /\ caught["END_FRAME"] = 1
    /\ fs["start.png"] = "fresh"
    /\ calls["VIDEO"] = 0

\* C20: every wrapper call counts its attempts from 0: a stage may use all
\* MAX_RETRIES attempts whatever the stages before it used, it gives up only
\* after MAX_RETRIES failures of its own, and the delay of its first backoff
\* is the one of index 0.
C20_RetryStatePerCall ==
    /\ \A s \in Stages :
          /\ calls[s] <= MAX_RETRIES \/ calls[s] = 0
          /\ (exit_kind = "exhausted" /\ FailedAt(s) /\ MAX_RETRIES >= 0) =>
                caught[s] = MAX_RETRIES /\ calls[s] = MAX_RETRIES
    /\ (pc \in {"loop", "sleep", "poll", "refetch", "extract"} /\ state \in Stages) =>
          attempt = caught[state] - (IF pc = "sleep" THEN 1 ELSE 0)
    /\ (pc = "sleep" /\ caught[state] = 1) =>
          /\ attempt = 0
          /\ delay >= BASE_DELAY
          /\ delay <= BASE_DELAY + MAX_JITTER

C20_Witness ==
    /\ caught["START_FRAME"] = 2
    /\ ret["START_FRAME"] # "pending"
    /\ state = "END_FRAME"
    /\ pc = "sleep"
    /\ caught["END_FRAME"] = 1
    /\ delay = BASE_DELAY
    /\ MAX_RETRIES = 3

\* C18 as stated: a clip request with an aspect_ratio or a duration outside
\* the listed values, or without a required field or environment value, is
\* turned down before any generation service is called and before any file
\* is written, in the document form and in the option form.
C18_BadRequestRejected ==
    (\/ config.aspect \notin AspectRatios
     \/ config.duration \notin DurationChoices
     \/ ~config.complete
     \/ ~config.env) =>
        /\ \A s \in Stages : requests[s] = 0
        /\ \A f \in Files : fs[f] # "fresh"

\* ------------------------------------------------ claims on chain_clips.py
\* every clip was probed with a positive duration
AllProbed == \A i \in DOMAIN durations : durations[i] > 0

HasMp4(d) == \E f \in d.files : f.ext = "mp4"

\* C12 as stated: every cross-dissolve starts at D - f, D being the probed
\* duration of what precedes it: clip 1 for the first transition, the fused
\* first pair (d1 + d2 - f) for the second one.
C12_OffsetIsDurationMinusFade ==
    \A k \in DOMAIN invocations :
        (invocations[k].strategy = "crossfade" /\ AllProbed) =>
            /\ invocations[k].offsets[1] = durations[1] - invocations[k].fade
            /\ Len(invocations[k].inputs) = 3 =>
                  invocations[k].offsets[2] =
                      (durations[1] + durations[2] - invocations[k].fade)
                          - invocations[k].fade

\* C13 as stated: ffmpeg is run with a cross-dissolve only when the fade is
\* shorter than the segment before the transition.
C13_FadeShorterThanSegment ==
    \A k \in DOMAIN invocations :
        (invocations[k].strategy = "crossfade" /\ AllProbed) =>
            /\ invocations[k].fade < durations[1]
            /\ Len(invocations[k].inputs) = 3 =>
                  invocations[k].fade <
                      durations[1] + durations[2] - invocations[k].fade

\* C14: a chain run invokes at most one strategy, exactly one once it got
\* past discovery, and it is crossfade when crossfade > 0, else reencode when
\* --reencode is set, else the stream-copy concatenation.
C14_StrategyByPrecedence ==
    /\ Len(invocations) <= 1
    /\ cpc \in {"report", "done"} => Len(invocations) = 1
    /\ \A k \in DOMAIN invocations :
          /\ args.crossfade > 0 => invocations[k].strategy = "crossfade"
          /\ (args.crossfade <= 0 /\ args.reencode) =>
                invocations[k].strategy = "reencode"
          /\ (args.crossfade <= 0 /\ ~args.reencode) =>
                invocations[k].strategy = "simple"
    /\ list_file.state # "none" => (args.crossfade <= 0 /\ ~args.reencode)

C14_Witness ==
    /\ Len(invocations) = 1
    /\ invocations[1].strategy = "crossfade"
    /\ args.reencode
    /\ cpc = "done"

\* C15: the file found for a directory is clip.mp4 if it is there, else
\* video.mp4 if it is there, else one of its .mp4 files (the only one, if
\* there is one); a directory without .mp4 file ends the run with a message
\* naming it, and ffmpeg is not run for concatenation.
C15_DiscoveryPrecedence ==
    /\ \A i \in DOMAIN clip_paths :
          LET d == given[clip_paths[i].dir]
              n == clip_paths[i].name
          IN  /\ clip_paths[i].dir = args.clips[i]
              /\ n \in d.files
              /\ n.ext = "mp4"
              /\ ClipMp4 \in d.files => n = ClipMp4
              /\ (ClipMp4 \notin d.files /\ VideoMp4 \in d.files) => n = VideoMp4
              /\ Cardinality({f \in d.files : f.ext = "mp4"}) = 1 =>
                    {f \in d.files : f.ext = "mp4"} = {n}
    /\ Len(invocations) >= 1 =>
          \A i \in DOMAIN args.clips : HasMp4(given[args.clips[i]])
    /\ (cpc # "main" /\ cpc # "discover"
        /\ cexit.error \notin {"no ffmpeg", "too few clips"}
        /\ \E i \in DOMAIN args.clips :
              /\ given[args.clips[i]].exists
              /\ ~HasMp4(given[args.clips[i]])
              /\ \A j \in 1 .. i - 1 :
                    given[args.clips[j]].exists /\ HasMp4(given[args.clips[j]])) =>
          /\ cpc = "failed"
          /\ cexit = [code |-> 1, error |-> "no video file"]
          /\ Msg("ERROR: No video file found in", args.clips[Len(clip_paths) + 1], "")
                \in clog
          /\ ~HasMp4(given[args.clips[Len(clip_paths) + 1]])
          /\ invocations = <<>>

C15_Witness ==
    /\ cexit.error = "no video file"
    /\ Len(clip_paths) = 2
    /\ clip_paths[1].name = ClipMp4
    /\ clip_paths[2].name = VideoMp4
    /\ VideoMp4 \in given[1].files
    /\ BMp4 \in given[2].files
    /\ Msg("ERROR: No video file found in", 3, "") \in clog

\* C16: with more than 3 directories the run warns and goes on with the
\* first 3 in their order; with fewer than 2 it is turned down; so every
\* strategy gets 2 or 3 paths, the i-th one a file of the i-th directory.
C16_FirstThreeInOrder ==
    /\ (cpc # "main" /\ Len(given) > MAX_CLIPS) =>
          /\ Msg("WARNING: Only first 3 clips will be used", 0, "") \in clog
          /\ args.clips = <<1, 2, 3>>
          /\ cexit.error # "too few clips"
    /\ Len(given) <= MAX_CLIPS =>
          /\ Msg("WARNING: Only first 3 clips will be used", 0, "") \notin clog
          /\ args.clips = [i \in 1 .. Len(given) |-> i]
    /\ (cpc # "main" /\ Len(given) < MIN_CLIPS) =>
          /\ cpc = "failed"
          /\ cexit = [code |-> 1, error |-> "too few clips"]
    /\ \A k \in DOMAIN invocations :
          /\ Len(invocations[k].inputs) \in {2, 3}
          /\ Len(invocations[k].inputs) = Min(Len(given), MAX_CLIPS)
          /\ \A i \in DOMAIN invocations[k].inputs :
                /\ invocations[k].inputs[i].dir = i
                /\ invocations[k].inputs[i].name \in given[i].files

C16_Witness ==
    /\ Len(given) = 4
    /\ cpc = "done"
    /\ Len(invocations) = 1
    /\ invocations[1].strategy = "simple"
    /\ Len(invocations[1].inputs) = 3

\* C17: in each strategy a non-zero exit of ffmpeg ends the run with its
\* stderr text printed: no second ffmpeg run, no probe of the output, no
\* CHAIN COMPLETE; after a zero exit the output is probed and its duration
\* and size are reported.
C17_ToolFailureIsFatal ==
    /\ \A k \in DOMAIN invocations :
          /\ invocations[k].returncode # 0 =>
                /\ cpc = "failed"
                /\ cexit = [code |-> 1, error |-> "ffmpeg failed"]
                /\ Msg("ERROR: ffmpeg failed", 0, invocations[k].stderr) \in clog
                /\ invocations[k].stderr # ""
                /\ Len(invocations) = 1
                /\ out_probes = 0
                /\ Msg("CHAIN COMPLETE", 0, "") \notin clog
          /\ invocations[k].returncode = 0 =>
                /\ cpc \in {"report", "done"}
                /\ cpc = "done" =>
                      /\ out_probes = 1
                      /\ cexit.code = 0
                      /\ {Msg("CHAIN COMPLETE", 0, ""), Msg("Duration", 0, ""),
                          Msg("Size", 0, "")} \subseteq clog
    /\ out_probes >= 1 => Len(invocations) = 1

C17_Witness ==
    /\ Len(invocations) = 1
    /\ invocations[1].strategy = "crossfade"
    /\ invocations[1].returncode = 1
    /\ Len(invocations[1].inputs) = 3
    /\ cpc = "failed"

\* C19 as stated: two runs with different requests and their own clip
\* directories, interleaved in any order, each use the attempt cap they set
\* themselves and end with the terminal state, the attempts per stage and
\* the files they have when run alone.
C19_RunsIndependent ==
    \A r \in DOMAIN runs :
        /\ runs[r].pc = "try" => runs[r].limit = runs[r].cap
        /\ runs[r].pc \in {"done", "failed"} =>
              /\ (runs[r].pc = "done") = AloneDone(runs[r].cap, runs[r].fails)
              /\ runs[r].attempts = AloneAttempts(runs[r].cap, runs[r].fails)
              /\ runs[r].written = AloneWritten(runs[r].cap, runs[r].fails)

\* a run whose companion never starts ends as AloneDone, AloneAttempts and
\* AloneWritten say
RunsAloneBaseline ==
    \A r \in DOMAIN runs :
        (runs[r].pc \in {"done", "failed"}
         /\ \A o \in DOMAIN runs \ {r} : runs[o].pc = "main") =>
              /\ (runs[r].pc = "done") = AloneDone(runs[r].cap, runs[r].fails)
              /\ runs[r].attempts = AloneAttempts(runs[r].cap, runs[r].fails)
              /\ runs[r].written = AloneWritten(runs[r].cap, runs[r].fails)

\* C21 as stated: every backoff suspension of a wrapper call is followed by
\* another attempt, so a call with cap MAX_RETRIES suspends at most
\* MAX_RETRIES - 1 times and raises right after its last failed attempt.
C21_SuspensionThenAttempt ==
    MAX_RETRIES >= 1 =>
        /\ \A s \in Stages : sleeps[s] <= MAX_RETRIES - 1
        /\ pc = "sleep" => CanAttempt(attempt + 1)

\* C23 as stated: for every cap main() accepts, 0 and negative ones
\* included, a wrapper call that returned has called the function, and one
\* that ended with the loop used up raises an error the function raised.
C23_ErrorComesFromOperation ==
    /\ \A s \in Stages : ret[s] # "pending" => calls[s] >= 1
    /\ exit_kind = "exhausted" =>
          /\ raised = thrown
          /\ raised \in ServiceErrors
          /\ \E s \in Stages : calls[s] >= 1

\* C22 as stated: however concat_simple is left (ffmpeg succeeded, ffmpeg
\* failed, or the list file could not be written) its temporary list file
\* is gone; and the list file names the clip paths as absolute paths in
\* chain order.
C22_ListFileRemoved ==
    /\ cpc \in {"report", "done", "failed"} => list_file.state # "exists"
    /\ (list_file.state # "none" /\ cexit.error # "OSError") =>
          /\ Len(list_file.lines) = Len(clip_paths)
          /\ \A i \in DOMAIN list_file.lines :
                /\ list_file.lines[i] = Absolute(clip_paths[i])
                /\ list_file.lines[i].abs
                /\ list_file.lines[i].dir = i

====
